---- MODULE Spec2Model ----
(***************************************************************************)
(* Model of the text-cleaning utilities of clean.py, the record adapter of *)
(* adopter_example.py and the lenient JSONL reader.                        *)
(*                                                                         *)
(* A Python str is a sequence of one-character strings.  Python indexes    *)
(* from 0 and TLA+ from 1: a position p of the source is p + 1 here, and   *)
(* the slice text[:p] is SubSeq(text, 1, P - 1) for P = p + 1.             *)
(***************************************************************************)
EXTENDS Integers, Sequences, FiniteSets, TLC

VARIABLES
    text,       \* the input string of the function under study (document.text)
    pc,         \* position of the run: "input", "applied", "reapplied", ...
    out,        \* what the first application returned
    out2,       \* what the re-application returned
    scan,       \* locals of the loop of extract_until_two_non_period_lines
    file,       \* the file read by read_file: what each next(f) produces
    li,         \* enumerate index of read_file (1-based: source li + 1)
    yielded,    \* documents handed to the consumer so far, in order
    warnings,   \* logger.warning calls so far, in order
    handle,     \* "closed" | "open": the handle of data_folder.open
    escaped     \* TRUE when an exception left read_file

vars == <<text, pc, out, out2, scan, file, li, yielded, warnings, handle, escaped>>

textVars == <<text, pc, out, out2, scan>>
readerVars == <<file, li, yielded, warnings, handle, escaped>>

(***************************************************************************)
(* Bounds of the model.                                                    *)
(***************************************************************************)
MaxRefFrags == 4
MaxHeadingFrags == 7
MaxYearLen == 6
MaxExtractLines == 4
MaxDocLines == 4
MaxFileLines == 4

(***************************************************************************)
(* Python str helpers.                                                     *)
(***************************************************************************)
\* str.isspace of one character (the ASCII part of Python's whitespace that
\* the inputs of the model use).
Whitespace == {" ", "\t", "\n", "\r"}

IsSpace(c) == c \in Whitespace

\* \d of the re module, on ASCII digits.
Digits == {"0", "1", "2", "3", "4", "5", "6", "7", "8", "9"}

IsDigit(c) == c \in Digits

\* The line boundaries of str.splitlines that the inputs of the model use;
\* "\r\n" counts as one boundary.
LineBoundaries == {"\n", "\r"}

Min(S) == CHOOSE x \in S : \A y \in S : x <= y

Max(S) == CHOOSE x \in S : \A y \in S : x >= y

\* s.rstrip(): drop the trailing whitespace.
rstrip(s) ==
    LET keep == {i \in 0..Len(s) : i = 0 \/ ~IsSpace(s[i])}
    IN  SubSeq(s, 1, Max(keep))

\* s.lstrip(): drop the leading whitespace.
lstrip(s) ==
    LET first == {i \in 1..(Len(s) + 1) : i = Len(s) + 1 \/ ~IsSpace(s[i])}
    IN  SubSeq(s, Min(first), Len(s))

\* s.strip()
strip(s) == lstrip(rstrip(s))

\* s.rstrip("\n"): drop the trailing "\n" characters only.
rstrip_newlines(s) ==
    LET keep == {i \in 0..Len(s) : i = 0 \/ s[i] /= "\n"}
    IN  SubSeq(s, 1, Max(keep))

\* s.endswith(c) for a one-character c.
endswith(s, c) == Len(s) > 0 /\ s[Len(s)] = c

\* s.find(c) for a one-character c, 1-based; 0 when c does not occur
\* (Python: -1).
find(s, c) ==
    LET hits == {i \in 1..Len(s) : s[i] = c}
    IN  IF hits = {} THEN 0 ELSE Min(hits)

\* s.splitlines(): the lines without their boundaries; no empty last line
\* after a final boundary; "" has no lines.
RECURSIVE splitlines(_)
splitlines(s) ==
    IF s = <<>> THEN <<>>
    ELSE LET brks == {i \in 1..Len(s) : s[i] \in LineBoundaries}
         IN  IF brks = {} THEN <<s>>
             ELSE LET b == Min(brks)
                      e == IF s[b] = "\r" /\ b < Len(s) /\ s[b + 1] = "\n"
                           THEN b + 1 ELSE b
                  IN  <<SubSeq(s, 1, b - 1)>> \o splitlines(SubSeq(s, e + 1, Len(s)))

\* "\n".join(lines)
RECURSIVE join(_)
join(lines) ==
    IF lines = <<>> THEN <<>>
    ELSE IF Len(lines) = 1 THEN lines[1]
    ELSE lines[1] \o <<"\n">> \o join(Tail(lines))

\* len(s.split()): the number of maximal runs of non-whitespace.
count_words(s) ==
    Cardinality({i \in 1..Len(s) :
        ~IsSpace(s[i]) /\ (i = 1 \/ IsSpace(s[i - 1]))})

\* The concatenation of a sequence of strings.
RECURSIVE Flatten(_)
Flatten(ss) == IF ss = <<>> THEN <<>> ELSE ss[1] \o Flatten(Tail(ss))

\* Every concatenation of at most n fragments of F.
TextsOf(F, n) == {Flatten(fs) : fs \in UNION {[1..k -> F] : k \in 0..n}}

\* t has w at position p (1-based).
StartsAt(t, p, w) ==
    /\ p + Len(w) - 1 <= Len(t)
    /\ \A k \in 1..Len(w) : t[p + k - 1] = w[k]

(***************************************************************************)
(* remove_after_references                                                 *)
(***************************************************************************)
References == <<"R", "e", "f", "e", "r", "e", "n", "c", "e", "s">>
ExternalLinks == <<"E", "x", "t", "e", "r", "n", "a", "l", " ", "l", "i", "n", "k", "s">>
SeeAlso == <<"S", "e", "e", " ", "a", "l", "s", "o">>
Category == <<"C", "a", "t", "e", "g", "o", "r", "y", ":">>
Notes == <<"N", "o", "t", "e", "s">>

\* The alternatives of the pattern, in the order the regex tries them.
Keywords == <<References, ExternalLinks, SeeAlso, Category, Notes>>

\* Length of the match of the alternation at p: the first alternative that
\* matches there; 0 when none does.
KeywordMatchLen(t, p) ==
    LET alts == {k \in 1..Len(Keywords) : StartsAt(t, p, Keywords[k])}
    IN  IF alts = {} THEN 0 ELSE Len(Keywords[Min(alts)])

\* re.finditer(pattern, text): the starts of the non-overlapping matches,
\* scanning from p, leftmost first.
RECURSIVE KeywordMatches(_, _)
KeywordMatches(t, p) ==
    IF p > Len(t) THEN <<>>
    ELSE LET n == KeywordMatchLen(t, p)
         IN  IF n > 0 THEN <<p>> \o KeywordMatches(t, p + n)
             ELSE KeywordMatches(t, p + 1)

\* first_line_end: the position of the first "\n", or one past the end.
FirstLineEnd(t) == IF find(t, "\n") = 0 THEN Len(t) + 1 ELSE find(t, "\n")

\* The loop over the matches: earliest_valid_match_pos (0 for None) after
\* the matches ms, having started from acc.
\* Variant: the first-line exemption (pos > first_line_end) left out.
RECURSIVE EarliestValid_any_line(_, _, _)
EarliestValid_any_line(ms, fle, acc) ==
    IF ms = <<>> THEN acc
    ELSE LET pos == ms[1]
             nxt == IF acc = 0 \/ pos < acc THEN pos ELSE acc
         IN  EarliestValid_any_line(Tail(ms), fle, nxt)

\* Variant: the comparison turned, keeping the latest valid match.
RECURSIVE EarliestValid_latest(_, _, _)
EarliestValid_latest(ms, fle, acc) ==
    IF ms = <<>> THEN acc
    ELSE LET pos == ms[1]
             nxt == IF pos > fle /\ (acc = 0 \/ pos > acc) THEN pos ELSE acc
         IN  EarliestValid_latest(Tail(ms), fle, nxt)

RECURSIVE EarliestValid(_, _, _)
EarliestValid(ms, fle, acc) ==
    IF ms = <<>> THEN acc
    ELSE LET pos == ms[1]
             nxt == IF pos > fle /\ (acc = 0 \/ pos < acc) THEN pos ELSE acc
         IN  EarliestValid(Tail(ms), fle, nxt)

remove_after_references(t) ==
    LET first_line_end == FirstLineEnd(t)
        earliest == EarliestValid(KeywordMatches(t, 1), first_line_end, 0)
    IN  IF earliest /= 0 THEN rstrip(SubSeq(t, 1, earliest - 1)) ELSE t

(***************************************************************************)
(* contains_western_year                                                   *)
(***************************************************************************)
\* (?<!\d)\d{3,4}(?!\d) tried at p: the lookbehind, then the greedy \d{3,4}
\* with 4 digits and, backtracking, with 3, each followed by the lookahead.
NotDigitAt(t, p) == p < 1 \/ p > Len(t) \/ ~IsDigit(t[p])

DigitsAt(t, p, n) == p + n - 1 <= Len(t) /\ \A k \in 0..(n - 1) : IsDigit(t[p + k])

\* Variant: the lookahead (?!\d) left out.
YearMatchAt_no_lookahead(t, p) ==
    /\ NotDigitAt(t, p - 1)
    /\ \/ DigitsAt(t, p, 4)
       \/ DigitsAt(t, p, 3)

YearMatchAt(t, p) ==
    /\ NotDigitAt(t, p - 1)
    /\ \/ DigitsAt(t, p, 4) /\ NotDigitAt(t, p + 4)
       \/ DigitsAt(t, p, 3) /\ NotDigitAt(t, p + 3)

\* bool(re.search(...)): some position matches.
contains_western_year(t) == \E p \in 1..Len(t) : YearMatchAt(t, p)

(***************************************************************************)
(* normalize_wikisection_headings                                          *)
(***************************************************************************)
\* End (exclusive) of the greedy \s* started at p.
SpaceEnd(t, p) == Min({i \in p..(Len(t) + 1) : i = Len(t) + 1 \/ ~IsSpace(t[i])})

\* End (exclusive) of the greedy run of "=" started at p.
EqEnd(t, p) == Min({i \in p..(Len(t) + 1) : i = Len(t) + 1 \/ t[i] /= "="})

\* (?m)^ at p: the start of the text or just after a "\n".
AtLineStart(t, p) == p = 1 \/ t[p - 1] = "\n"

\* (?m)$ at p: the end of the text or just before a "\n".
AtLineEnd(t, p) == p = Len(t) + 1 \/ t[p] = "\n"

\* The match of ^\s*={2,}([^=]+?)={2,}\s*$ started at p, as the backtracking
\* matcher finds it: [end |-> exclusive end, from/to |-> group 1], end = 0
\* when there is none.  \s* and both ={2,} are greedy and what follows each
\* cannot start with a character of the run, so giving characters back never
\* helps; the lazy [^=]+? grows, over any character but "=" (line breaks
\* included), up to the next "="; the last \s* gives whitespace back until
\* $ holds.
HeadingMatch(t, p) ==
    LET i == SpaceEnd(t, p)
        j == EqEnd(t, i)
        k == EqEnd(t, Min({x \in j..(Len(t) + 1) : x = Len(t) + 1 \/ t[x] = "="}))
        g == Min({x \in j..(Len(t) + 1) : x = Len(t) + 1 \/ t[x] = "="})
        ends == {m \in k..SpaceEnd(t, k) : AtLineEnd(t, m)}
    IN  IF /\ AtLineStart(t, p)
           /\ j - i >= 2
           /\ g > j
           /\ k - g >= 2
           /\ ends /= {}
        THEN [end |-> Max(ends), from |-> j, to |-> g - 1]
        ELSE [end |-> 0, from |-> 0, to |-> 0]

\* pattern.sub(lambda m: m.group(1).strip(), text) from position p on: each
\* match, leftmost first, is replaced and the scan resumes after it.
RECURSIVE HeadingSub(_, _)
HeadingSub(t, p) ==
    IF p > Len(t) THEN <<>>
    ELSE LET m == HeadingMatch(t, p)
         IN  IF m.end /= 0
             THEN strip(SubSeq(t, m.from, m.to)) \o HeadingSub(t, m.end)
             ELSE <<t[p]>> \o HeadingSub(t, p + 1)

normalize_wikisection_headings(t) == HeadingSub(t, 1)

(***************************************************************************)
(* extract_until_two_non_period_lines                                      *)
(***************************************************************************)
\* The locals before the loop.
ExtractInit == [result |-> <<>>, buffer |-> <<>>, non_period_streak |-> 0, broke |-> FALSE]

\* Variant: a blank line resets the streak.
ExtractStep_blank_resets(st, line) ==
    LET stripped == strip(line)
    IN  IF endswith(stripped, ".")
        THEN [result |-> st.result \o st.buffer \o line \o <<"\n">>,
              buffer |-> <<>>,
              non_period_streak |-> 0,
              broke |-> FALSE]
        ELSE LET streak == IF stripped /= <<>> THEN st.non_period_streak + 1 ELSE 0
             IN  [result |-> st.result,
                  buffer |-> st.buffer \o line \o <<"\n">>,
                  non_period_streak |-> streak,
                  broke |-> stripped /= <<>> /\ streak >= 2]

\* One iteration of the loop on `line`; broke records the break.
ExtractStep(st, line) ==
    LET stripped == strip(line)
    IN  IF endswith(stripped, ".")
        THEN [result |-> st.result \o st.buffer \o line \o <<"\n">>,
              buffer |-> <<>>,
              non_period_streak |-> 0,
              broke |-> FALSE]
        ELSE LET streak == IF stripped /= <<>>
                           THEN st.non_period_streak + 1
                           ELSE st.non_period_streak
             IN  [result |-> st.result,
                  buffer |-> st.buffer \o line \o <<"\n">>,
                  non_period_streak |-> streak,
                  broke |-> stripped /= <<>> /\ streak >= 2]

\* The loop over the remaining lines.
RECURSIVE ExtractLoop(_, _)
ExtractLoop(st, lines) ==
    IF lines = <<>> \/ st.broke THEN st
    ELSE ExtractLoop(ExtractStep(st, Head(lines)), Tail(lines))

\* Variant: the final rstrip("\n") left out.
extract_no_rstrip(t) == ExtractLoop(ExtractInit, splitlines(t)).result

extract_until_two_non_period_lines(t) ==
    rstrip_newlines(ExtractLoop(ExtractInit, splitlines(t)).result)

(***************************************************************************)
(* custom_adapter                                                          *)
(***************************************************************************)
\* Variant: idx started at the title line (idx = 0).
BodyStart_from_title(lines) ==
    Min({i \in 1..(Len(lines) + 1) : i = Len(lines) + 1 \/ strip(lines[i]) /= <<>>})

\* idx after the while loop (1-based): the first line after the title that
\* is not blank, or one past the last line.
BodyStart(lines) ==
    Min({i \in 2..(Len(lines) + 1) : i = Len(lines) + 1 \/ strip(lines[i]) /= <<>>})

\* The returned dict, from the locals body_text and extracted_text and the
\* first line.
AdapterRecord(first_line, body_text, extracted_text) ==
    [raised |-> FALSE,
     title |-> strip(first_line),
     text |-> body_text,
     text_word_count |-> count_words(body_text),
     extracted_text_length |-> Len(extracted_text),
     extracted_text_word_count |-> count_words(extracted_text),
     contains_western_year |-> contains_western_year(body_text),
     extracted_contains_western_year |-> contains_western_year(extracted_text)]

\* From body_text on: the extraction and the dict.  ret is what the call
\* returns, the other fields are its locals.
AdapterBody(full_text, lines, body_text) ==
    LET extracted_text == extract_until_two_non_period_lines(body_text)
    IN  [full_text |-> full_text,
         body_text |-> body_text,
         extracted_text |-> extracted_text,
         ret |-> AdapterRecord(lines[1], body_text, extracted_text)]

\* From lines = full_text.splitlines() on: the ValueError on no lines, else
\* the split between the title and the body.
AdapterLines(full_text, lines) ==
    IF lines = <<>>
    THEN [full_text |-> full_text, body_text |-> <<>>, extracted_text |-> <<>>,
          ret |-> [raised |-> TRUE]]
    ELSE AdapterBody(full_text, lines,
                     strip(join(SubSeq(lines, BodyStart(lines), Len(lines)))))

\* From full_text on.
AdapterFull(full_text) == AdapterLines(full_text, splitlines(full_text))

\* custom_adapter on document.text = t, with its locals.
AdapterRun(t) == AdapterFull(remove_after_references(normalize_wikisection_headings(t)))

\* What custom_adapter does on document.text = t: the ValueError
\* (raised |-> TRUE) or the returned dict.
custom_adapter(t) == AdapterRun(t).ret

(***************************************************************************)
(* Inputs.                                                                 *)
(***************************************************************************)
\* Every text of at most n lines of K, joined by "\n".
LinesOf(K, n) == {join(ls) : ls \in UNION {[1..k -> K] : k \in 0..n}}

RefFrags == {<<"\n">>, <<" ">>, <<"a">>, Notes, SeeAlso, <<"n", "o", "t", "e", "s">>}

HeadingFrags == {<<"=", "=">>, <<"a">>, <<" ">>, <<"\n">>}

YearFrags == {<<"1">>, <<"9">>, <<"a">>}

ExtractLineKinds ==
    {<<"a", ".">>, <<"a", ".", " ">>, <<".", "a">>, <<>>, <<" ">>, <<"a", ".", "\r">>}

DocLineKinds ==
    {<<>>, <<" ">>, <<"1", "9", "9", ".">>, <<"a">>, Notes, <<"=", "=", "a", "=", "=">>}

\* What next(f) and the processing of the line it returns can do.
LineOutcomes == {"ok", "bad_json", "bad_record", "no_document", "undecodable"}

Files == UNION {[1..k -> LineOutcomes] : k \in 0..MaxFileLines}

\* filepath
Path == "f"

NoScan == [lines |-> <<>>, idx |-> 0, st |-> ExtractInit]

TextIdle == pc = "input" /\ out = <<>> /\ out2 = <<>> /\ scan = NoScan

ReaderIdle ==
    /\ file = <<>>
    /\ li = 0
    /\ yielded = <<>>
    /\ warnings = <<>>
    /\ handle = "closed"
    /\ escaped = FALSE

(***************************************************************************)
(* The string functions, applied once and, for the idempotence claims,     *)
(* again to their own output.                                              *)
(***************************************************************************)
RemoveReferences ==
    /\ pc = "input"
    /\ out' = remove_after_references(text)
    /\ pc' = "applied"
    /\ UNCHANGED <<text, out2, scan, readerVars>>

RemoveReferencesAgain ==
    /\ pc = "applied"
    /\ out2' = remove_after_references(out)
    /\ pc' = "reapplied"
    /\ UNCHANGED <<text, out, scan, readerVars>>

InitRefs == text \in TextsOf(RefFrags, MaxRefFrags) /\ TextIdle /\ ReaderIdle

NextRefs == RemoveReferences \/ RemoveReferencesAgain

SpecRefs == InitRefs /\ [][NextRefs]_vars

NormalizeHeadings ==
    /\ pc = "input"
    /\ out' = normalize_wikisection_headings(text)
    /\ pc' = "applied"
    /\ UNCHANGED <<text, out2, scan, readerVars>>

NormalizeHeadingsAgain ==
    /\ pc = "applied"
    /\ out2' = normalize_wikisection_headings(out)
    /\ pc' = "reapplied"
    /\ UNCHANGED <<text, out, scan, readerVars>>

InitHeadings == text \in TextsOf(HeadingFrags, MaxHeadingFrags) /\ TextIdle /\ ReaderIdle

NextHeadings == NormalizeHeadings \/ NormalizeHeadingsAgain

SpecHeadings == InitHeadings /\ [][NextHeadings]_vars

DetectYear ==
    /\ pc = "input"
    /\ out' = contains_western_year(text)
    /\ pc' = "applied"
    /\ UNCHANGED <<text, out2, scan, readerVars>>

InitYear == text \in TextsOf(YearFrags, MaxYearLen) /\ TextIdle /\ ReaderIdle

NextYear == DetectYear

SpecYear == InitYear /\ [][NextYear]_vars

(***************************************************************************)
(* extract_until_two_non_period_lines, one loop iteration at a time.       *)
(***************************************************************************)
ExtractStart ==
    /\ pc = "input"
    /\ scan' = [lines |-> splitlines(text), idx |-> 1, st |-> ExtractInit]
    /\ pc' = "scanning"
    /\ UNCHANGED <<text, out, out2, readerVars>>

ExtractLine ==
    /\ pc = "scanning"
    /\ scan.idx <= Len(scan.lines)
    /\ ~scan.st.broke
    /\ scan' = [scan EXCEPT !.idx = @ + 1,
                            !.st = ExtractStep(scan.st, scan.lines[scan.idx])]
    /\ UNCHANGED <<text, pc, out, out2, readerVars>>

ExtractReturn ==
    /\ pc = "scanning"
    /\ scan.idx > Len(scan.lines) \/ scan.st.broke
    /\ out' = rstrip_newlines(scan.st.result)
    /\ pc' = "returned"
    /\ UNCHANGED <<text, out2, scan, readerVars>>

InitExtract == text \in LinesOf(ExtractLineKinds, MaxExtractLines) /\ TextIdle /\ ReaderIdle

NextExtract == ExtractStart \/ ExtractLine \/ ExtractReturn

SpecExtract == InitExtract /\ [][NextExtract]_vars

(***************************************************************************)
(* custom_adapter on one document.                                         *)
(***************************************************************************)
\* out is what the call does; scan keeps its locals.
Adapt ==
    /\ pc = "input"
    /\ \E r \in {AdapterRun(text)} :
          /\ out' = r.ret
          /\ scan' = [full_text |-> r.full_text,
                      body_text |-> r.body_text,
                      extracted_text |-> r.extracted_text]
          /\ pc' = IF r.ret.raised THEN "raised" ELSE "adapted"
    /\ UNCHANGED <<text, out2, readerVars>>

InitAdapter == text \in LinesOf(DocLineKinds, MaxDocLines) /\ TextIdle /\ ReaderIdle

NextAdapter == Adapt

SpecAdapter == InitAdapter /\ [][NextAdapter]_vars

(***************************************************************************)
(* LenientJsonlReader.read_file, a generator: it runs from one yield to    *)
(* the next when its consumer asks for the next document.                  *)
(***************************************************************************)
LineWarning(n) == [what |-> "line", path |-> Path, line |-> n - 1]

CorruptedWarning == [what |-> "corrupted", path |-> Path]

\* get_document_from_dict(data, filepath, li)
DocumentOf(n) == [path |-> Path, line |-> n - 1]

\* with self.data_folder.open(filepath, "r", compression=...) as f
OpenFile ==
    /\ pc = "idle"
    /\ handle' = "open"
    /\ li' = 1
    /\ pc' = "iterating"
    /\ UNCHANGED <<text, out, out2, scan, file, yielded, warnings, escaped>>

\* Variant: break in place of continue after the warning.
RaisingLine_ends ==
    /\ pc = "iterating"
    /\ li <= Len(file)
    /\ file[li] \in {"bad_json", "bad_record"}
    /\ warnings' = Append(warnings, LineWarning(li))
    /\ handle' = "closed"
    /\ pc' = "exhausted"
    /\ UNCHANGED <<text, out, out2, scan, file, li, yielded, escaped>>

\* json.loads or get_document_from_dict raises: except Exception, warning,
\* continue.
RaisingLine ==
    /\ pc = "iterating"
    /\ li <= Len(file)
    /\ file[li] \in {"bad_json", "bad_record"}
    /\ warnings' = Append(warnings, LineWarning(li))
    /\ li' = li + 1
    /\ UNCHANGED <<text, pc, out, out2, scan, file, yielded, handle, escaped>>

\* if not document: continue
NoDocumentLine ==
    /\ pc = "iterating"
    /\ li <= Len(file)
    /\ file[li] = "no_document"
    /\ li' = li + 1
    /\ UNCHANGED <<text, pc, out, out2, scan, file, yielded, warnings, handle, escaped>>

\* yield document
YieldDocument ==
    /\ pc = "iterating"
    /\ li <= Len(file)
    /\ file[li] = "ok"
    /\ yielded' = Append(yielded, DocumentOf(li))
    /\ pc' = "suspended"
    /\ UNCHANGED <<text, out, out2, scan, file, li, warnings, handle, escaped>>

\* The consumer asks for the next document.
Resume ==
    /\ pc = "suspended"
    /\ li' = li + 1
    /\ pc' = "iterating"
    /\ UNCHANGED <<text, out, out2, scan, file, yielded, warnings, handle, escaped>>

\* The consumer closes the generator at a yield: GeneratorExit leaves the
\* with block.
Abandon ==
    /\ pc = "suspended"
    /\ handle' = "closed"
    /\ pc' = "abandoned"
    /\ UNCHANGED <<text, out, out2, scan, file, li, yielded, warnings, escaped>>

\* Variant: no outer except, the UnicodeDecodeError leaves read_file.
DecodeError_escapes ==
    /\ pc = "iterating"
    /\ li <= Len(file)
    /\ file[li] = "undecodable"
    /\ escaped' = TRUE
    /\ handle' = "closed"
    /\ pc' = "stopped"
    /\ UNCHANGED <<text, out, out2, scan, file, li, yielded, warnings>>

\* next(f) raises UnicodeDecodeError: the outer except logs, the with block
\* ends.
DecodeError ==
    /\ pc = "iterating"
    /\ li <= Len(file)
    /\ file[li] = "undecodable"
    /\ warnings' = Append(warnings, CorruptedWarning)
    /\ handle' = "closed"
    /\ pc' = "stopped"
    /\ UNCHANGED <<text, out, out2, scan, file, li, yielded, escaped>>

\* The for loop ends: the with block ends.
Exhausted ==
    /\ pc = "iterating"
    /\ li > Len(file)
    /\ handle' = "closed"
    /\ pc' = "exhausted"
    /\ UNCHANGED <<text, out, out2, scan, file, li, yielded, warnings, escaped>>

InitReader ==
    /\ text = <<>>
    /\ out = <<>>
    /\ out2 = <<>>
    /\ scan = NoScan
    /\ pc = "idle"
    /\ file \in Files
    /\ li = 0
    /\ yielded = <<>>
    /\ warnings = <<>>
    /\ handle = "closed"
    /\ escaped = FALSE

NextReader ==
    \/ OpenFile
    \/ RaisingLine
    \/ NoDocumentLine
    \/ YieldDocument
    \/ Resume
    \/ Abandon
    \/ DecodeError
    \/ Exhausted

SpecReader == InitReader /\ [][NextReader]_vars

(***************************************************************************)
(* Properties.                                                             *)
(***************************************************************************)
\* The positions where some keyword starts.
KeywordStarts(t) ==
    {p \in 1..Len(t) : \E k \in 1..Len(Keywords) : StartsAt(t, p, Keywords[k])}

\* The keyword starts strictly after the first line break.
StartsAfterFirstBreak(t) ==
    {p \in KeywordStarts(t) : find(t, "\n") /= 0 /\ p > find(t, "\n")}

\* C1: remove_after_references returns the text before the earliest keyword
\* that starts strictly after the first line break, trailing whitespace
\* trimmed; with no line break, or no keyword after the first one, it
\* returns the text unchanged (a keyword in the first line never truncates).
C1_TruncatesAtEarliestKeyword ==
    pc \in {"applied", "reapplied"} =>
        IF StartsAfterFirstBreak(text) /= {}
        THEN out = rstrip(SubSeq(text, 1, Min(StartsAfterFirstBreak(text)) - 1))
        ELSE out = text

\* A truncated text with a keyword in its first line too, and whitespace
\* trimmed from the cut.
C1_Witness ==
    /\ pc = "applied"
    /\ StartsAfterFirstBreak(text) /= {}
    /\ \E p \in KeywordStarts(text) : p < find(text, "\n")
    /\ Len(out) < Min(StartsAfterFirstBreak(text)) - 1
    /\ out /= <<>>

\* C8: remove_after_references applied to its own output returns it
\* unchanged.
C8_RemoveIdempotent == pc = "reapplied" => out2 = out

\* The trimming of the cut removed the first line break and the output
\* still holds a keyword.
C8_Witness ==
    /\ pc = "reapplied"
    /\ out /= text
    /\ find(text, "\n") /= 0
    /\ find(out, "\n") = 0
    /\ KeywordStarts(out) /= {}

\* i..j is a maximal run of digits of t.
MaximalDigitRun(t, i, j) ==
    /\ i <= j
    /\ \A k \in i..j : IsDigit(t[k])
    /\ i = 1 \/ ~IsDigit(t[i - 1])
    /\ j = Len(t) \/ ~IsDigit(t[j + 1])

\* C9: contains_western_year is true exactly when the text has a maximal
\* run of decimal digits of length 3 or 4.
C9_YearIffRunOf3Or4 ==
    pc = "applied" =>
        (out <=> \E i \in 1..Len(text) : \E j \in i..Len(text) :
                    MaximalDigitRun(text, i, j) /\ (j - i + 1) \in {3, 4})

\* A run of five or more digits next to a non-digit, and no year found.
C9_Witness ==
    /\ pc = "applied"
    /\ out = FALSE
    /\ \E i \in 1..Len(text) : \E j \in i..Len(text) :
          MaximalDigitRun(text, i, j) /\ j - i + 1 >= 5 /\ Len(text) > j - i + 1

\* Line i of ls ends, stripped, with a period.
PeriodLine(ls, i) == endswith(strip(ls[i]), ".")

\* Line i of ls is neither blank nor period-terminated.
OpenLine(ls, i) == ~PeriodLine(ls, i) /\ strip(ls[i]) /= <<>>

\* The last period-terminated line among the first n, 0 when none.
LastPeriod(ls, n) == Max({0} \cup {i \in 1..n : PeriodLine(ls, i)})

\* The lines at which the streak counter reaches 2: an open line with an
\* earlier open line and no period-terminated line in between.
StopPoints(ls) ==
    {s \in 1..Len(ls) :
        /\ OpenLine(ls, s)
        /\ \E r \in 1..(s - 1) :
              OpenLine(ls, r) /\ \A m \in (r + 1)..(s - 1) : ~PeriodLine(ls, m)}

\* Each of the lines ls followed by "\n".
RECURSIVE Terminated(_)
Terminated(ls) == IF ls = <<>> THEN <<>> ELSE ls[1] \o <<"\n">> \o Terminated(Tail(ls))

\* C2: while scanning, the result is the lines up to the last
\* period-terminated line read, the buffer the lines after it, the counter
\* the number of non-blank lines in the buffer, and scanning stops when the
\* counter reaches 2; the output is the lines from the first through the
\* last period-terminated line before the stop point (or the end of the
\* input), empty when there is none.
C2_OutputUpToLastPeriodLine ==
    LET ls == splitlines(text)
        n == scan.idx - 1
        stop == IF StopPoints(ls) = {} THEN Len(ls) + 1 ELSE Min(StopPoints(ls))
    IN  /\ pc = "scanning" =>
            /\ n <= stop
            /\ scan.st.broke <=> n = stop
            /\ scan.st.result = Terminated(SubSeq(ls, 1, LastPeriod(ls, n)))
            /\ scan.st.buffer = Terminated(SubSeq(ls, LastPeriod(ls, n) + 1, n))
            /\ scan.st.non_period_streak =
                   Cardinality({i \in (LastPeriod(ls, n) + 1)..n : OpenLine(ls, i)})
        /\ pc = "returned" =>
            /\ out = join(SubSeq(ls, 1, LastPeriod(ls, IF stop > Len(ls) THEN Len(ls) ELSE stop - 1)))
            /\ out = extract_until_two_non_period_lines(text)

\* The scan stopped at a second open line, a blank line between the two,
\* and left a period-terminated line unread.
C2_Witness ==
    /\ pc = "returned"
    /\ scan.st.broke
    /\ \E i \in scan.idx..Len(scan.lines) : PeriodLine(scan.lines, i)
    /\ \E i \in 1..(scan.idx - 2) :
          strip(scan.lines[i]) = <<>> /\ i > LastPeriod(scan.lines, scan.idx - 1)

\* The pieces of t between its "\n" characters (t.split("\n")).
RECURSIVE SplitNL(_)
SplitNL(t) ==
    IF find(t, "\n") = 0 THEN <<t>>
    ELSE <<SubSeq(t, 1, find(t, "\n") - 1)>> \o SplitNL(SubSeq(t, find(t, "\n") + 1, Len(t)))

\* The line l is, as a whole: whitespace, two or more "=", a heading text
\* without "=", two or more "=", whitespace.
IsHeadingLine(l) ==
    LET s == strip(l)
        a == EqEnd(s, 1)
        inner == {i \in 1..Len(s) : s[i] /= "="}
    IN  /\ inner /= {}
        /\ a - 1 >= 2
        /\ Min(inner) = a
        /\ Len(s) - Max(inner) >= 2
        /\ \A i \in Min(inner)..Max(inner) : s[i] /= "="

\* The trimmed heading text of a heading line.
HeadingText(l) ==
    LET s == strip(l)
        inner == {i \in 1..Len(s) : s[i] /= "="}
    IN  strip(SubSeq(s, Min(inner), Max(inner)))

\* C3: normalize_wikisection_headings replaces each line that is as a whole
\* a heading by its trimmed heading text and leaves every other line, the
\* line order and the line count unchanged.
C3_LineWiseRewrite ==
    pc \in {"applied", "reapplied"} =>
        LET ls == SplitNL(text)
        IN  out = join([i \in 1..Len(ls) |->
                           IF IsHeadingLine(ls[i]) THEN HeadingText(ls[i]) ELSE ls[i]])

\* C7: normalize_wikisection_headings applied to its own output returns it
\* unchanged.
C7_NormalizeIdempotent == pc = "reapplied" => out2 = out

\* ls without its leading blank lines.
RECURSIVE DropBlank(_)
DropBlank(ls) ==
    IF ls /= <<>> /\ strip(ls[1]) = <<>> THEN DropBlank(Tail(ls)) ELSE ls

\* C4: custom_adapter raises exactly when the normalized, truncated text has
\* no line; otherwise the title is the trimmed first line and the text the
\* trimmed remainder after the blank lines that follow the first line, so
\* it neither begins nor ends with whitespace nor holds the title line.
C4_TitleAndBody ==
    pc \in {"raised", "adapted"} =>
        LET full == remove_after_references(normalize_wikisection_headings(text))
            ls == splitlines(full)
        IN  /\ out.raised <=> Len(ls) = 0
            /\ (pc = "raised") <=> out.raised
            /\ ~out.raised =>
                /\ out.title = strip(ls[1])
                /\ out.text = strip(join(DropBlank(Tail(ls))))
                /\ out.text /= <<>> =>
                      ~IsSpace(out.text[1]) /\ ~IsSpace(out.text[Len(out.text)])
                /\ Len(splitlines(out.text)) < Len(ls)

\* A record whose body follows blank lines after the title and is cut by
\* the trimming.
C4_Witness ==
    /\ pc = "adapted"
    /\ Len(splitlines(scan.full_text)) >= 3
    /\ strip(splitlines(scan.full_text)[2]) = <<>>
    /\ out.text /= <<>>
    /\ out.title /= <<>>
    /\ scan.full_text /= text

\* a is b or the lines of a start the lines of b.
IsPrefix(a, b) == Len(a) <= Len(b) /\ SubSeq(b, 1, Len(a)) = a

\* C10: when custom_adapter returns a record the extracted text is a
\* line-wise prefix of the body text, so its word count and length do not
\* exceed the body's and a year in it is a year in the body.
C10_ExtractedWithinBody ==
    pc = "adapted" =>
        /\ IsPrefix(splitlines(scan.extracted_text), splitlines(out.text))
        /\ out.extracted_text_word_count <= out.text_word_count
        /\ out.extracted_text_length <= Len(out.text)
        /\ out.extracted_contains_western_year => out.contains_western_year

\* A non-empty extract, with a year, shorter than the body.
C10_Witness ==
    /\ pc = "adapted"
    /\ scan.extracted_text /= <<>>
    /\ scan.extracted_text /= out.text
    /\ out.extracted_contains_western_year
    /\ out.extracted_text_word_count < out.text_word_count

\* The documents of the "ok" lines among the first n lines of f, in order.
RECURSIVE DocumentsOf(_, _)
DocumentsOf(f, n) ==
    IF n = 0 THEN <<>>
    ELSE IF f[n] = "ok" THEN Append(DocumentsOf(f, n - 1), DocumentOf(n))
    ELSE DocumentsOf(f, n - 1)

\* The warnings of the raising lines among the first n lines of f, in order.
RECURSIVE LineWarningsOf(_, _)
LineWarningsOf(f, n) ==
    IF n = 0 THEN <<>>
    ELSE IF f[n] \in {"bad_json", "bad_record"}
         THEN Append(LineWarningsOf(f, n - 1), LineWarning(n))
    ELSE LineWarningsOf(f, n - 1)

\* The lines read_file is done with.
Processed == IF pc \in {"suspended", "abandoned"} THEN li ELSE li - 1

\* C5: on a file of valid and faulty lines, the documents yielded are those
\* of the valid lines, in file order, each once; each line whose parse or
\* construction raised has one warning with the file and its index; the
\* iteration ends only after the last line.
C5_YieldsExactlyValidLines ==
    (pc \in {"iterating", "suspended", "abandoned", "exhausted", "stopped"}
        /\ \A i \in 1..Len(file) : file[i] /= "undecodable") =>
        /\ pc /= "stopped"
        /\ yielded = DocumentsOf(file, Processed)
        /\ warnings = LineWarningsOf(file, Processed)
        /\ pc = "exhausted" => Processed = Len(file) /\ handle = "closed"
        /\ ~escaped

\* The file was read to its end past a faulty line of each kind, and a
\* valid line after them was yielded.
C5_Witness ==
    /\ pc = "exhausted"
    /\ \E i, j, k, l \in 1..Len(file) :
          /\ file[i] = "bad_json"
          /\ file[j] = "bad_record"
          /\ file[k] = "no_document"
          /\ file[l] = "ok"
          /\ l > i /\ l > j /\ l > k
    /\ Len(yielded) = 1
    /\ Len(warnings) = 2

\* C6: when the stream cannot be decoded at a line the read ends there:
\* one warning for it, no exception out of the reader, the handle released,
\* the documents yielded being those of the valid lines before it.
C6_DecodeErrorEndsRead ==
    pc = "stopped" =>
        /\ li <= Len(file) /\ file[li] = "undecodable"
        /\ \A i \in 1..(li - 1) : file[i] /= "undecodable"
        /\ handle = "closed"
        /\ ~escaped
        /\ warnings = Append(LineWarningsOf(file, li - 1), CorruptedWarning)
        /\ yielded = DocumentsOf(file, li - 1)
        /\ ~ENABLED NextReader

\* The read stopped at an undecodable line after a yielded document and
\* before a valid line.
C6_Witness ==
    /\ pc = "stopped"
    /\ yielded /= <<>>
    /\ \E i \in (li + 1)..Len(file) : file[i] = "ok"

====
